---- MODULE Spec2Model ----
(***************************************************************************)
(* polar-core knowledge base (kb.rs): scoped storage of constants and rule *)
(* groups, the gensym and id counters, and the lookups over them.          *)
(*                                                                         *)
(* Conventions.  An Option is a sequence of length 0 (None) or 1 (Some).   *)
(* A call that can panic yields [panic, val]; the state it leaves behind   *)
(* is the state at the point of the panic.  A Symbol that names a scope, a *)
(* constant or a rule is a TLA+ string; the text built by gensym is a      *)
(* sequence of one-character strings, so that formatting is computed.      *)
(* A counter value is a pair <<hi, lo>> of base-10^8 limbs, hi*10^8 + lo,  *)
(* which holds 2^52 exactly.                                               *)
(***************************************************************************)
EXTENDS Integers, Sequences, FiniteSets, TLC

VARIABLES
    kb,         \* the KnowledgeBase value: scopes, sources, counters, queries
    heap,       \* the shared counter cells (Arc), by reference
    handles,    \* holder -> Option of a counter reference from id_counter()
    ret,        \* the call whose outcome the caller holds, or idle
    built,      \* which constructor made kb
    gensyms,    \* history: every symbol gensym has returned
    calls,      \* history: how many gensym calls and id requests returned
    seen,       \* history: holder -> Option of the last id it was handed
    observed,   \* history: ranges <<lo, hi>> of ids handed out since the last wrap
    lastConst,  \* history: name -> Option of the value of the last constant call
    added,      \* history: scope -> name -> rules added since the last clear_rules
    cleared,    \* history: <<scope, rule name>> of rules added before the last clear_rules
    fold        \* a transformer pass: the folder, its input, its result, its visits

vars == <<kb, heap, handles, ret, built, gensyms, calls, seen, observed,
          lastConst, added, cleared, fold>>

(***************************************************************************)
(* Bounds of the model.                                                    *)
(***************************************************************************)
MaxRules == 2        \* add_rule calls between two clear_rules
MaxGensyms == 2      \* single gensym calls
MaxIds == 4          \* single id requests
MaxRuns == 1         \* runs of back-to-back calls, per counter
RunLen == 8          \* gensym calls made back to back by one run
MaxQueries == 1      \* inline queries queued between two clear_rules
MaxArgs == 2         \* terms in an argument, element or parameter sequence

DEFAULT == "default"
ScopeNames == {DEFAULT, "other"}
Names == {"f", "g"}
Values == {"v1", "v2"}
Bodies == {"b1", "b2"}
Rules == [name : Names, body : Bodies]
Holders == {"kb", "h1", "h2"}

None == <<>>
Some(x) == <<x>>

(***************************************************************************)
(* Path (terms.rs): a dotted name, here its sequence of segments.          *)
(***************************************************************************)
Paths == {<<n>> : n \in Names}
         \cup {<<s, n>> : s \in ScopeNames, n \in Names}

\* Path from a Symbol (`symbol.into()`): the one-segment path.
PathOf(sym) == <<sym>>

\* Path::into_1: the first segment.
into_1(path) == path[1]

\* Path::into_2: (name, None) for a bare name, (scope, Some(name)) for a
\* qualified one.
into_2(path) ==
    IF Len(path) = 1 THEN <<path[1], None>> ELSE <<path[1], Some(path[2])>>

(***************************************************************************)
(* Counter (counter.rs): a shared cell holding the next value to hand out. *)
(***************************************************************************)
Base == 100000000
MAX_ID == <<45035996, 27370496>>     \* 2^52 = 4503599627370496
ONE == <<0, 1>>

CLess(a, b) == a[1] < b[1] \/ (a[1] = b[1] /\ a[2] < b[2])
CLeq(a, b) == a = b \/ CLess(a, b)
CAdd(a, b) ==
    IF a[2] + b[2] >= Base THEN <<a[1] + b[1] + 1, a[2] + b[2] - Base>>
    ELSE <<a[1] + b[1], a[2] + b[2]>>

CPred(v) == IF v[2] = 0 THEN <<v[1] - 1, Base - 1>> ELSE <<v[1], v[2] - 1>>

\* Counter::default: a fresh cell starting at 1.
CounterDefault == ONE

\* Counter::next on a cell holding v: hands out v, then steps, wrapping to
\* the start once 2^52 has been handed out.
CounterNext(v) ==
    [out |-> v, v |-> IF v = MAX_ID THEN CounterDefault ELSE CAdd(v, ONE)]

(***************************************************************************)
(* Text: Symbol(format!(...)) as a sequence of characters.                 *)
(***************************************************************************)
Digits == <<"0", "1", "2", "3", "4", "5", "6", "7", "8", "9">>

RECURSIVE Dec(_)
\* Decimal digits of a natural number below Base, no leading zeros.
Dec(n) == IF n < 10 THEN <<Digits[n + 1]>>
          ELSE Dec(n \div 10) \o <<Digits[(n % 10) + 1]>>

RECURSIVE PadZero(_, _)
PadZero(s, w) == IF Len(s) >= w THEN s ELSE PadZero(<<"0">> \o s, w)

\* format!("{}", n) of a counter value.
Format(v) == IF v[1] = 0 THEN Dec(v[2]) ELSE Dec(v[1]) \o PadZero(Dec(v[2]), 8)

\* str::starts_with('_')
starts_with_underscore(s) == Len(s) > 0 /\ s[1] = "_"

Prefixes == {<<"_">>, <<>>, <<"a">>, <<"_", "a">>, <<"_", "1">>, <<"a", "_", "1">>}

(***************************************************************************)
(* Scope and KnowledgeBase values.                                         *)
(***************************************************************************)
EmptyMap == [x \in {} |-> x]

\* HashMap::insert
Insert(m, k, v) == [x \in DOMAIN m \cup {k} |-> IF x = k THEN v ELSE m[x]]

\* HashMap::get
Get(m, k) == IF k \in DOMAIN m THEN Some(m[k]) ELSE None

\* Scope::new
Scope_new(name) == [name |-> name, constants |-> EmptyMap, rules |-> EmptyMap]

\* Sources::default: the empty registry.
Sources_default == {}

\* GenericRule::new
GenericRule_new(name, rules) == [name |-> name, rules |-> rules]

\* GenericRule::add_rule: appends the clause to the group.
GenericRule_add_rule(g, rule) == [g EXCEPT !.rules = Append(@, rule)]

\* The cells KnowledgeBase::new and Default::default allocate: the id
\* counter's, then the gensym counter's.
IdCell == 1
GensymCell == 2
NewHeap == <<CounterDefault, CounterDefault>>

\* KnowledgeBase::new
KnowledgeBase_new ==
    [scopes |-> Insert(EmptyMap, DEFAULT, Scope_new(PathOf(DEFAULT))),
     sources |-> Sources_default,
     id_counter |-> IdCell,
     gensym_counter |-> GensymCell,
     inline_queries |-> <<>>]

\* #[derive(Default)] for KnowledgeBase: every field its type's default, so
\* an empty scope map.
KnowledgeBase_default ==
    [scopes |-> EmptyMap,
     sources |-> Sources_default,
     id_counter |-> IdCell,
     gensym_counter |-> GensymCell,
     inline_queries |-> <<>>]

new_id_stale(k, h) == [out |-> h[k.id_counter], heap |-> h]
\* KnowledgeBase::new_id
new_id(k, h) ==
    LET r == CounterNext(h[k.id_counter])
    IN  [out |-> r.out, heap |-> [h EXCEPT ![k.id_counter] = r.v]]

id_counter_copy(k, h) == [out |-> Len(h) + 1, heap |-> Append(h, h[k.id_counter])]
\* KnowledgeBase::id_counter: a clone of the handle, on the same cell.
id_counter(k, h) == [out |-> k.id_counter, heap |-> h]

\* next() through a handle obtained from id_counter().
handle_next(c, h) ==
    LET r == CounterNext(h[c])
    IN  [out |-> r.out, heap |-> [h EXCEPT ![c] = r.v]]

gensym_text_plain(prefix, next) == prefix \o <<"_">> \o Format(next)
\* The three-way naming rule of gensym.
gensym_text(prefix, next) ==
    IF prefix = <<"_">> THEN <<"_">> \o Format(next)
    ELSE IF starts_with_underscore(prefix) THEN prefix \o <<"_">> \o Format(next)
    ELSE <<"_">> \o prefix \o <<"_">> \o Format(next)

gensym_on_id_counter(k, h, prefix) ==
    LET r == CounterNext(h[k.id_counter])
    IN  [out |-> gensym_text(prefix, r.out),
         heap |-> [h EXCEPT ![k.id_counter] = r.v]]
gensym_stale(k, h, prefix) ==
    [out |-> gensym_text(prefix, h[k.gensym_counter]), heap |-> h]
\* KnowledgeBase::gensym
gensym(k, h, prefix) ==
    LET r == CounterNext(h[k.gensym_counter])
    IN  [out |-> gensym_text(prefix, r.out),
         heap |-> [h EXCEPT ![k.gensym_counter] = r.v]]

constant_keep_old(k, name, value) ==
    LET scopes1 == IF DEFAULT \in DOMAIN k.scopes THEN k.scopes
                   ELSE Insert(k.scopes, DEFAULT, Scope_new(PathOf(DEFAULT)))
        old == scopes1[DEFAULT].constants
    IN  [k EXCEPT !.scopes =
            [scopes1 EXCEPT ![DEFAULT].constants =
                IF name \in DOMAIN old THEN old ELSE Insert(old, name, value)]]
\* KnowledgeBase::constant
constant(k, name, value) ==
    LET scopes1 == IF DEFAULT \in DOMAIN k.scopes THEN k.scopes
                   ELSE Insert(k.scopes, DEFAULT, Scope_new(PathOf(DEFAULT)))
    IN  [k EXCEPT !.scopes =
            [scopes1 EXCEPT ![DEFAULT].constants = Insert(@, name, value)]]

\* KnowledgeBase::get_included_scope: everything is included in everything.
get_included_scope(k, base, included) == Get(k.scopes, into_1(included))

Lookup_wrong_segment(k, path, scope, field) ==
    LET s == Get(k.scopes, into_1(scope))
        p == into_2(path)
    IN  IF s = None THEN [panic |-> FALSE, val |-> None]
        ELSE [panic |-> FALSE, val |-> Get(s[1][field], p[1])]
\* Option::unwrap on the included scope, then the member of that name.
\* `field` is "constants" or "rules".
Lookup(k, path, scope, field) ==
    LET s == Get(k.scopes, into_1(scope))
        p == into_2(path)
    IN  IF s = None THEN [panic |-> FALSE, val |-> None]
        ELSE IF p[2] = None
             THEN [panic |-> FALSE, val |-> Get(s[1][field], p[1])]
             ELSE LET inc == get_included_scope(k, s[1], PathOf(p[1]))
                  IN  IF inc = None THEN [panic |-> TRUE, val |-> None]
                      ELSE [panic |-> FALSE, val |-> Get(inc[1][field], p[2][1])]

\* KnowledgeBase::lookup_constant
lookup_constant(k, path, scope) == Lookup(k, path, scope, "constants")

\* KnowledgeBase::lookup_rule
lookup_rule(k, path, scope) == Lookup(k, path, scope, "rules")

\* KnowledgeBase::is_constant
is_constant(k, symbol) ==
    LET r == lookup_constant(k, PathOf(symbol), PathOf(DEFAULT))
    IN  [panic |-> r.panic, val |-> r.val # None]

add_rule_replace(k, rule, scope) ==
    LET s == into_1(scope)
    IN  IF s \notin DOMAIN k.scopes THEN [panic |-> TRUE, kb |-> k]
        ELSE [panic |-> FALSE,
              kb |-> [k EXCEPT !.scopes[s].rules =
                        Insert(@, rule.name, GenericRule_new(rule.name, <<rule>>))]]
add_rule_create_scope(k, rule, scope) ==
    LET s == into_1(scope)
        scopes1 == IF s \in DOMAIN k.scopes THEN k.scopes
                   ELSE Insert(k.scopes, s, Scope_new(scope))
        rules == scopes1[s].rules
        g == IF rule.name \in DOMAIN rules THEN rules[rule.name]
             ELSE GenericRule_new(rule.name, <<>>)
    IN  [panic |-> FALSE,
         kb |-> [k EXCEPT !.scopes =
                   [scopes1 EXCEPT ![s].rules =
                      Insert(rules, rule.name, GenericRule_add_rule(g, rule))]]]
\* KnowledgeBase::add_rule
add_rule(k, rule, scope) ==
    LET s == into_1(scope)
    IN  IF s \notin DOMAIN k.scopes THEN [panic |-> TRUE, kb |-> k]
        ELSE LET rules == k.scopes[s].rules
                 g == IF rule.name \in DOMAIN rules THEN rules[rule.name]
                      ELSE GenericRule_new(rule.name, <<>>)
             IN  [panic |-> FALSE,
                  kb |-> [k EXCEPT !.scopes[s].rules =
                            Insert(rules, rule.name, GenericRule_add_rule(g, rule))]]

clear_rules_and_constants(k) ==
    [k EXCEPT !.scopes = [s \in DOMAIN k.scopes |-> Scope_new(k.scopes[s].name)],
              !.sources = Sources_default,
              !.inline_queries = <<>>]
\* KnowledgeBase::clear_rules
clear_rules(k) ==
    [k EXCEPT !.scopes = [s \in DOMAIN k.scopes |->
                            [k.scopes[s] EXCEPT !.rules = EmptyMap]],
              !.sources = Sources_default,
              !.inline_queries = <<>>]

(***************************************************************************)
(* The state after construction, by either constructor.                    *)
(***************************************************************************)
Call(op, args, panic, out) == [op |-> op, args |-> args, panic |-> panic, out |-> out]
Idle == Call("idle", <<>>, FALSE, None)

SourceIds == {"s1"}
Queries == {"q"}

\* No pass is running.
NoFold == [pc |-> "none"]

InitKB ==
    /\ \/ kb = KnowledgeBase_new /\ built = "new"
       \/ kb = KnowledgeBase_default /\ built = "default"
    /\ heap = NewHeap
    /\ handles = [h \in Holders |-> None]
    /\ ret = Idle
    /\ gensyms = {}
    /\ calls = [gensym |-> 0, gensymRuns |-> 0, id |-> 0, idRuns |-> 0]
    /\ seen = [h \in Holders |-> None]
    /\ observed = {}
    /\ lastConst = [n \in Names |-> None]
    /\ added = [s \in ScopeNames |-> [n \in Names |-> <<>>]]
    /\ cleared = {}

Init == InitKB /\ fold = NoFold

counterHist == <<gensyms, calls, seen, observed>>
kbHist == <<lastConst, added, cleared>>

(***************************************************************************)
(* One action per operation.  The knowledge base is used synchronously:    *)
(* a call is made when no outcome is pending, and Return hands the         *)
(* outcome to the caller.                                                  *)
(***************************************************************************)
Return ==
    /\ ret.op # "idle"
    /\ ret' = Idle
    /\ UNCHANGED <<kb, heap, handles, built, fold, counterHist, kbHist>>

Constant(n, v) ==
    /\ ret.op = "idle"
    /\ kb' = constant(kb, n, v)
    /\ ret' = Call("constant", <<n, v>>, FALSE, None)
    /\ lastConst' = [lastConst EXCEPT ![n] = Some(v)]
    /\ UNCHANGED <<heap, handles, built, fold, counterHist, added, cleared>>

IsConstant(n) ==
    /\ ret.op = "idle"
    /\ LET r == is_constant(kb, n)
       IN  ret' = Call("is_constant", <<n>>, r.panic, r.val)
    /\ UNCHANGED <<kb, heap, handles, built, fold, counterHist, kbHist>>

LookupConstant(p, s) ==
    /\ ret.op = "idle"
    /\ LET r == lookup_constant(kb, p, s)
       IN  ret' = Call("lookup_constant", <<p, s>>, r.panic, r.val)
    /\ UNCHANGED <<kb, heap, handles, built, fold, counterHist, kbHist>>

LookupRule(p, s) ==
    /\ ret.op = "idle"
    /\ LET r == lookup_rule(kb, p, s)
       IN  ret' = Call("lookup_rule", <<p, s>>, r.panic, r.val)
    /\ UNCHANGED <<kb, heap, handles, built, fold, counterHist, kbHist>>

NumAdded == LET n(s) == Len(added[s]["f"]) + Len(added[s]["g"])
            IN  n(DEFAULT) + n("other")

AddRule(rule, s) ==
    /\ ret.op = "idle"
    /\ NumAdded < MaxRules
    /\ LET r == add_rule(kb, rule, s)
       IN  /\ kb' = r.kb
           /\ ret' = Call("add_rule", <<rule, s>>, r.panic, None)
           /\ added' = IF r.panic THEN added
                       ELSE [added EXCEPT ![into_1(s)][rule.name] = Append(@, rule)]
    /\ UNCHANGED <<heap, handles, built, fold, counterHist, lastConst, cleared>>

ClearRules ==
    /\ ret.op = "idle"
    /\ kb' = clear_rules(kb)
    /\ ret' = Call("clear_rules", <<>>, FALSE, None)
    /\ cleared' = cleared \cup {<<s, n>> \in ScopeNames \X Names : added[s][n] # <<>>}
    /\ added' = [s \in ScopeNames |-> [n \in Names |-> <<>>]]
    /\ UNCHANGED <<heap, handles, built, fold, counterHist, lastConst>>

\* `sources` is a public field: the loader registers a source.
AddSource(src) ==
    /\ ret.op = "idle"
    /\ src \notin kb.sources
    /\ kb' = [kb EXCEPT !.sources = @ \cup {src}]
    /\ ret' = Call("sources.add", <<src>>, FALSE, None)
    /\ UNCHANGED <<heap, handles, built, fold, counterHist, kbHist>>

\* `inline_queries` is a public field: the loader queues a query.
PushInlineQuery(q) ==
    /\ ret.op = "idle"
    /\ Len(kb.inline_queries) < MaxQueries
    /\ kb' = [kb EXCEPT !.inline_queries = Append(@, q)]
    /\ ret' = Call("inline_queries.push", <<q>>, FALSE, None)
    /\ UNCHANGED <<heap, handles, built, fold, counterHist, kbHist>>

Next ==
    \/ \E n \in Names, v \in Values : Constant(n, v)
    \/ \E n \in Names : IsConstant(n)
    \/ \E p \in Paths, s \in ScopeNames : LookupConstant(p, PathOf(s))
    \/ \E p \in Paths, s \in ScopeNames : LookupRule(p, PathOf(s))
    \/ \E r \in Rules, s \in ScopeNames : AddRule(r, PathOf(s))
    \/ ClearRules
    \/ \E src \in SourceIds : AddSource(src)
    \/ \E q \in Queries : PushInlineQuery(q)
    \/ Return

Spec == Init /\ [][Next]_vars

(***************************************************************************)
(* Properties of the knowledge base, checked under Spec.                   *)
(***************************************************************************)
Lookups == {"lookup_constant", "lookup_rule", "is_constant"}
NotFound == [panic |-> FALSE, val |-> None]
Found(x) == [panic |-> FALSE, val |-> Some(x)]

\* C1: lookup_constant, lookup_rule and is_constant never raise: whatever
\* the path and the scope, an unregistered base scope, qualifying segment
\* or name gives an outcome, never a panic.
C1_LookupsNeverRaise == ret.op \in Lookups => ~ret.panic

\* C2: the scope map holds the key `default` after construction and in
\* every state reached afterwards.
C2_DefaultScopeAlways == DEFAULT \in DOMAIN kb.scopes

ConstantsSurvive ==
    \A n \in Names :
        lastConst[n] # None =>
            /\ is_constant(kb, n) = [panic |-> FALSE, val |-> TRUE]
            /\ lookup_constant(kb, PathOf(n), PathOf(DEFAULT)) = Found(lastConst[n][1])

\* C3, as claimed: the value of the last constant call for a name is still
\* bound, and lookup_rule returns 'not found' for every rule added before
\* the last clear_rules.
C3_Original ==
    /\ ConstantsSurvive
    /\ \A c \in cleared : lookup_rule(kb, PathOf(c[2]), PathOf(c[1])) = NotFound

\* C3, amended: the value of the last constant call for a name is still
\* bound, and lookup_rule returns 'not found' for every rule added before
\* the last clear_rules under a name that has had no add_rule since.
C3_ConstantsSurviveReload ==
    /\ ConstantsSurvive
    /\ \A c \in cleared :
           added[c[1]][c[2]] = <<>> =>
               lookup_rule(kb, PathOf(c[2]), PathOf(c[1])) = NotFound

C3_Witness ==
    /\ lastConst["f"] = Some("v2")
    /\ <<DEFAULT, "f">> \in cleared
    /\ added[DEFAULT]["f"] = <<>>
    /\ added[DEFAULT]["g"] # <<>>

\* C4: between two clear_rules, lookup_rule(name, scope) on a registered
\* scope returns the group holding exactly the rules added under that name
\* to that scope, each once, in insertion order ('not found' when none).
C4_RuleAccumulation ==
    \A s \in DOMAIN kb.scopes, n \in Names :
        lookup_rule(kb, PathOf(n), PathOf(s)) =
            IF added[s][n] = <<>> THEN NotFound
            ELSE Found(GenericRule_new(n, added[s][n]))

C4_Witness ==
    /\ ret.op = "add_rule"
    /\ added[DEFAULT]["f"] = <<[name |-> "f", body |-> "b2"], [name |-> "f", body |-> "b1"]>>

\* C5: add_rule on an unregistered scope panics and changes nothing: no
\* scope is created, and the scopes, the sources, the inline queries and
\* both counters are as before the call.
C5_AddRuleUnregisteredFatal ==
    [][(ret'.op = "add_rule" /\ ret.op = "idle"
          /\ into_1(ret'.args[2]) \notin DOMAIN kb.scopes)
       => (ret'.panic /\ kb' = kb /\ heap' = heap)]_vars

C5_Witness ==
    /\ ret.op = "add_rule"
    /\ ret.panic
    /\ DEFAULT \in DOMAIN kb.scopes
    /\ kb.scopes[DEFAULT].constants # EmptyMap
    /\ kb.scopes[DEFAULT].rules # EmptyMap
    /\ kb.sources # {}

Member(k, s, field, n) == Get(k.scopes[s][field], n)

\* C10, as claimed: a qualified path whose prefix names a registered scope
\* S yields S's member of that name, whatever the base scope.
C10_Original ==
    \A s \in DOMAIN kb.scopes, n \in Names, base \in ScopeNames :
        /\ lookup_constant(kb, <<s, n>>, PathOf(base)) =
               [panic |-> FALSE, val |-> Member(kb, s, "constants", n)]
        /\ lookup_rule(kb, <<s, n>>, PathOf(base)) =
               [panic |-> FALSE, val |-> Member(kb, s, "rules", n)]

\* C10, amended: a qualified path whose prefix names a registered scope S
\* yields S's member of that name for every registered base scope, and
\* 'not found' for an unregistered base scope.
C10_PermissiveInclusion ==
    \A s \in DOMAIN kb.scopes, n \in Names, base \in ScopeNames :
        /\ lookup_constant(kb, <<s, n>>, PathOf(base)) =
               IF base \in DOMAIN kb.scopes
               THEN [panic |-> FALSE, val |-> Member(kb, s, "constants", n)]
               ELSE NotFound
        /\ lookup_rule(kb, <<s, n>>, PathOf(base)) =
               IF base \in DOMAIN kb.scopes
               THEN [panic |-> FALSE, val |-> Member(kb, s, "rules", n)]
               ELSE NotFound

C10_Witness ==
    /\ ret.op = "lookup_rule"
    /\ ret.args = <<<<DEFAULT, "g">>, PathOf(DEFAULT)>>
    /\ ret.out # None
    /\ lookup_constant(kb, <<DEFAULT, "f">>, PathOf(DEFAULT)) = Found("v1")

\* The constants and the rules of scope s of k, empty when s is not
\* registered.
MembersOf(k, s, field) ==
    IF s \in DOMAIN k.scopes THEN k.scopes[s][field] ELSE EmptyMap

\* C13: constant(name, value) inserts or overwrites the binding in the
\* default scope: right after it lookup_constant(name, default) yields
\* value whatever was bound before, every other constant binding and every
\* scope's rules are as before, and an absent default scope is created
\* first (and no other scope is).
C13_ConstantOverwrites ==
    [][(ret.op = "idle" /\ ret'.op = "constant") =>
         LET n == ret'.args[1]
             v == ret'.args[2]
         IN  /\ lookup_constant(kb', PathOf(n), PathOf(DEFAULT)) = Found(v)
             /\ DOMAIN kb'.scopes = DOMAIN kb.scopes \cup {DEFAULT}
             /\ \A s \in DOMAIN kb'.scopes :
                  /\ kb'.scopes[s].rules = MembersOf(kb, s, "rules")
                  /\ DOMAIN kb'.scopes[s].constants =
                        DOMAIN MembersOf(kb, s, "constants")
                            \cup (IF s = DEFAULT THEN {n} ELSE {})
                  /\ \A m \in DOMAIN MembersOf(kb, s, "constants") :
                        (s # DEFAULT \/ m # n) =>
                            kb'.scopes[s].constants[m] = kb.scopes[s].constants[m]]_vars

C13_Witness ==
    /\ built = "default"
    /\ ret.op = "constant"
    /\ ret.args = <<"f", "v2">>
    /\ Get(MembersOf(kb, DEFAULT, "constants"), "g") = Some("v1")
    /\ kb.scopes[DEFAULT].rules # EmptyMap

\* C14: right after clear_rules the rule mapping of every registered scope
\* is empty, lookup_rule returns 'not found' for every path and scope, the
\* inline-query queue is empty, the source registry is in its initial
\* state, and the set of registered scopes is as before.
C14_ClearRulesPostcondition ==
    [][(ret.op = "idle" /\ ret'.op = "clear_rules") =>
         /\ \A s \in DOMAIN kb'.scopes : kb'.scopes[s].rules = EmptyMap
         /\ \A p \in Paths, s \in ScopeNames :
                lookup_rule(kb', p, PathOf(s)) = NotFound
         /\ kb'.inline_queries = <<>>
         /\ kb'.sources = Sources_default
         /\ DOMAIN kb'.scopes = DOMAIN kb.scopes]_vars

\* C19: no operation registers a scope, so for a knowledge base built by
\* KnowledgeBase::new the registered scopes are exactly {default} in every
\* reachable state; add_rule succeeds only for scope default, and a lookup
\* with any other base scope returns 'not found'.
C19_OnlyDefaultScope ==
    built = "new" =>
        /\ DOMAIN kb.scopes = {DEFAULT}
        /\ ret.op = "add_rule" => (~ret.panic <=> into_1(ret.args[2]) = DEFAULT)
        /\ \A p \in Paths, s \in ScopeNames \ {DEFAULT} :
               /\ lookup_constant(kb, p, PathOf(s)) = NotFound
               /\ lookup_rule(kb, p, PathOf(s)) = NotFound
        /\ (ret.op \in {"lookup_constant", "lookup_rule"}
              /\ into_1(ret.args[2]) # DEFAULT) => (~ret.panic /\ ret.out = None)

C19_Witness ==
    /\ built = "new"
    /\ ret.op = "add_rule"
    /\ ret.args[2] = PathOf("other")
    /\ ret.panic
    /\ kb.scopes[DEFAULT].rules # EmptyMap
    /\ kb.scopes[DEFAULT].constants # EmptyMap

(***************************************************************************)
(* The gensym counter.                                                     *)
(***************************************************************************)
Gensym(prefix) ==
    /\ ret.op = "idle"
    /\ calls.gensym < MaxGensyms + RunLen * calls.gensymRuns
    /\ LET r == gensym(kb, heap, prefix)
       IN  /\ heap' = r.heap
           /\ ret' = Call("gensym", <<prefix, heap[kb.gensym_counter]>>, FALSE, r.out)
           /\ gensyms' = gensyms \cup {r.out}
    /\ calls' = [calls EXCEPT !.gensym = @ + 1]
    /\ UNCHANGED <<kb, handles, built, fold, seen, observed, kbHist>>

RECURSIVE GensymTimes(_, _, _, _)
\* n gensym calls with one prefix, back to back: the cells afterwards, the
\* cells before the last call, and the symbols returned, in order.
GensymTimes(k, h, prefix, n) ==
    IF n = 0 THEN [heap |-> h, before |-> h, outs |-> <<>>]
    ELSE LET r == gensym(k, h, prefix)
             rest == GensymTimes(k, r.heap, prefix, n - 1)
         IN  [heap |-> rest.heap,
              before |-> IF n = 1 THEN h ELSE rest.before,
              outs |-> <<r.out>> \o rest.outs]

\* A pass that renames RunLen variables: RunLen gensym calls, one prefix.
GensymRun(prefix) ==
    /\ ret.op = "idle"
    /\ calls.gensymRuns < MaxRuns
    /\ LET r == GensymTimes(kb, heap, prefix, RunLen)
       IN  /\ heap' = r.heap
           /\ ret' = Call("gensym", <<prefix, r.before[kb.gensym_counter]>>,
                          FALSE, r.outs[RunLen])
           /\ gensyms' = gensyms \cup {r.outs[i] : i \in 1..RunLen}
    /\ calls' = [calls EXCEPT !.gensym = @ + RunLen, !.gensymRuns = @ + 1]
    /\ UNCHANGED <<kb, handles, built, fold, seen, observed, kbHist>>

NextGensym ==
    \/ \E p \in Prefixes : Gensym(p)
    \/ \E p \in Prefixes : GensymRun(p)
    \/ Return

SpecGensym == Init /\ [][NextGensym]_vars

\* C6: before the gensym counter wraps, the symbols returned by any N
\* gensym calls, with any mix of prefixes, are N distinct symbols.
C6_GensymUnique == Cardinality(gensyms) = calls.gensym

C6_Witness ==
    /\ calls.gensym = RunLen + MaxGensyms
    /\ <<"_", "1">> \in gensyms
    /\ <<"_", "1", "_", "9">> \in gensyms
    /\ <<"_", "a", "_", "1", "0">> \in gensyms

\* The name the naming rule gives prefix p at counter value n.
ClaimedName(p, n) ==
    IF p = <<"_">> THEN <<"_">> \o Format(n)
    ELSE IF Len(p) > 0 /\ Head(p) = "_" THEN p \o <<"_">> \o Format(n)
    ELSE <<"_">> \o p \o <<"_">> \o Format(n)

\* C7: with n the next gensym-counter value, gensym("_") returns _<n>,
\* gensym(p) for another p starting with _ returns <p>_<n>, and every other
\* gensym(p) returns _<p>_<n>; so gensym("a") and gensym("_a") taken at the
\* same counter value give the same text.
C7_GensymNaming ==
    /\ ret.op = "gensym" => ret.out = ClaimedName(ret.args[1], ret.args[2])
    /\ gensym(kb, heap, <<"a">>).out = gensym(kb, heap, <<"_", "a">>).out
    /\ gensym(kb, heap, <<"a">>).out =
           <<"_", "a", "_">> \o Format(heap[kb.gensym_counter])

C7_Witness ==
    /\ ret.op = "gensym"
    /\ ret.args = <<<<"_", "a">>, <<0, 10>>>>
    /\ ret.out = <<"_", "a", "_", "1", "0">>
    /\ <<"_", "2">> \in gensyms
    /\ <<"_", "_", "1">> \in gensyms

(***************************************************************************)
(* The id counter and the handles on it.                                   *)
(***************************************************************************)
\* An id request by holder h that was handed the ids lo..hi: the histories.
Handed(h, lo, hi) ==
    /\ seen' = [seen EXCEPT ![h] = Some(hi)]
    /\ observed' = IF hi = MAX_ID THEN {} ELSE observed \cup {<<lo, hi>>}

NewId ==
    /\ ret.op = "idle"
    /\ calls.id < MaxIds
    /\ LET r == new_id(kb, heap)
       IN  /\ heap' = r.heap
           /\ ret' = Call("new_id", <<"kb">>, FALSE, r.out)
           /\ Handed("kb", r.out, r.out)
    /\ calls' = [calls EXCEPT !.id = @ + 1]
    /\ UNCHANGED <<kb, handles, built, fold, gensyms, kbHist>>

\* The lengths of the runs of new_id calls: up to the limb boundary, and up
\* to two short of 2^52.
IdRuns == {<<0, Base - 3>>, CPred(CPred(MAX_ID))}

\* A loader that allocates k ids in a row: k new_id calls, none of them
\* reaching 2^52, in closed form.
NewIdRun(k) ==
    /\ ret.op = "idle"
    /\ calls.idRuns < MaxRuns
    /\ LET v == heap[kb.id_counter]
           last == CPred(CAdd(v, k))
       IN  /\ CLess(last, MAX_ID)
           /\ heap' = [heap EXCEPT ![kb.id_counter] = CounterNext(last).v]
           /\ ret' = Call("new_id", <<"kb">>, FALSE, last)
           /\ Handed("kb", v, last)
    /\ calls' = [calls EXCEPT !.idRuns = @ + 1]
    /\ UNCHANGED <<kb, handles, built, fold, gensyms, kbHist>>

IdCounter(h) ==
    /\ ret.op = "idle"
    /\ handles[h] = None
    /\ LET r == id_counter(kb, heap)
       IN  /\ heap' = r.heap
           /\ handles' = [handles EXCEPT ![h] = Some(r.out)]
           /\ ret' = Call("id_counter", <<h>>, FALSE, r.out)
    /\ UNCHANGED <<kb, built, fold, counterHist, kbHist>>

HandleNext(h) ==
    /\ ret.op = "idle"
    /\ calls.id < MaxIds
    /\ handles[h] # None
    /\ LET r == handle_next(handles[h][1], heap)
       IN  /\ heap' = r.heap
           /\ ret' = Call("new_id", <<h>>, FALSE, r.out)
           /\ Handed(h, r.out, r.out)
    /\ calls' = [calls EXCEPT !.id = @ + 1]
    /\ UNCHANGED <<kb, handles, built, fold, gensyms, kbHist>>

NextIds ==
    \/ NewId
    \/ \E k \in IdRuns : NewIdRun(k)
    \/ \E h \in Holders \ {"kb"} : IdCounter(h)
    \/ \E h \in Holders \ {"kb"} : HandleNext(h)
    \/ Return

SpecIds == Init /\ [][NextIds]_vars

InObserved(x) == \E r \in observed : CLeq(r[1], x) /\ CLeq(x, r[2])
IdRequest == ret.op = "idle" /\ ret'.op = "new_id"

\* C8: successive new_id() calls return strictly increasing values until
\* the counter wraps around at 2^52, and no returned value exceeds 2^52.
C8_IdMonotonicBounded ==
    /\ [][(IdRequest /\ ret'.args[1] = "kb" /\ seen["kb"] # None
             /\ InObserved(seen["kb"][1]))
          => CLess(seen["kb"][1], ret'.out)]_vars
    /\ [](ret.op = "new_id" => CLeq(ret.out, MAX_ID))

C8_Witness ==
    /\ ret.op = "new_id"
    /\ ret.args[1] = "kb"
    /\ ret.out = MAX_ID
    /\ calls.id >= 2

\* C9: the handles from id_counter() and new_id() draw from one counter:
\* before wraparound no request is handed a value handed out before, and
\* each holder is handed strictly increasing values.
C9_CounterShared ==
    [][IdRequest =>
         /\ ~InObserved(ret'.out)
         /\ LET h == ret'.args[1]
            IN  (seen[h] # None /\ InObserved(seen[h][1]))
                    => CLess(seen[h][1], ret'.out)]_vars

C9_Witness ==
    /\ ret.op = "new_id"
    /\ ret.args[1] = "h2"
    /\ seen["kb"] = Some(<<0, 1>>)
    /\ seen["h1"] = Some(<<0, 2>>)
    /\ seen["h2"] = Some(<<0, 3>>)

(***************************************************************************)
(* Both counters next to the rest of the knowledge base: a session that    *)
(* loads constants and rules, queries them, and draws symbols and ids.     *)
(***************************************************************************)
SessionPrefixes == {<<"_">>, <<"a">>}
SessionPaths == {<<"f">>, <<DEFAULT, "f">>, <<"other", "f">>}

NextSession ==
    \/ \E p \in SessionPrefixes : Gensym(p)
    \/ NewId
    \/ \E v \in Values : Constant("f", v)
    \/ IsConstant("f")
    \/ \E p \in SessionPaths, s \in ScopeNames : LookupConstant(p, PathOf(s))
    \/ \E p \in SessionPaths, s \in ScopeNames : LookupRule(p, PathOf(s))
    \/ \E b \in Bodies, s \in ScopeNames :
           AddRule([name |-> "f", body |-> b], PathOf(s))
    \/ ClearRules
    \/ Return

SpecSession == Init /\ [][NextSession]_vars

\* One step of a counter from value v.
OneStep(v) == IF v = MAX_ID THEN ONE ELSE CAdd(v, ONE)

\* C18: the two counters are two cells, each touched only by its own
\* operation: gensym steps the gensym counter once and leaves the id
\* counter, new_id steps the id counter once and leaves the gensym
\* counter, and constant, add_rule, clear_rules and the lookups leave both
\* as they were (clear_rules does not reset them).
C18_CountersIndependent ==
    [][(ret.op = "idle" /\ ret'.op # "idle") =>
         LET g == kb.gensym_counter
             i == kb.id_counter
         IN  /\ g # i
             /\ kb'.gensym_counter = g
             /\ kb'.id_counter = i
             /\ heap'[g] = IF ret'.op = "gensym" THEN OneStep(heap[g]) ELSE heap[g]
             /\ heap'[i] = IF ret'.op = "new_id" THEN OneStep(heap[i]) ELSE heap[i]]_vars

C18_Witness ==
    /\ ret.op = "clear_rules"
    /\ heap[kb.gensym_counter] = <<0, 3>>
    /\ heap[kb.id_counter] = <<0, 4>>
    /\ <<DEFAULT, "f">> \in cleared
    /\ lastConst["f"] # None

(***************************************************************************)
(* Terms (terms.rs) and rules (rules.rs), as the folder sees them.  A Term *)
(* is a Value with its provenance; a Value is tagged with its variant and  *)
(* holds the variant's payload under a field of its own.  A BTreeMap is    *)
(* the sequence of its <<key, value>> entries in key order.                *)
(***************************************************************************)
Term_new(p, v) == [value |-> v, prov |-> p]

\* Term::clone_with_value: the same provenance around another value.
clone_with_value(t, v) == [t EXCEPT !.value = v]

Value_Number(n) == [tag |-> "Number", num |-> n]
Value_String(s) == [tag |-> "String", str |-> s]
Value_Boolean(b) == [tag |-> "Boolean", bool |-> b]
Value_Variable(v) == [tag |-> "Variable", var |-> v]
Value_Dictionary(d) == [tag |-> "Dictionary", dict |-> d]
Value_InstanceLiteral(i) == [tag |-> "InstanceLiteral", inst |-> i]
Value_Call(c) == [tag |-> "Call", call |-> c]
Value_List(l) == [tag |-> "List", list |-> l]
Value_Expression(o) == [tag |-> "Expression", expr |-> o]

\* Ord for Symbol: the order of the strings, over the symbols in use.
SymbolOrder == <<"a", "b", "f", "k", "z">>
SymLess(a, b) ==
    \E i, j \in 1..Len(SymbolOrder) :
        SymbolOrder[i] = a /\ SymbolOrder[j] = b /\ i < j

BTreeMap_insert_keep(m, k, v) ==
    IF \E i \in 1..Len(m) : m[i][1] = k THEN m
    ELSE LET below == SelectSeq(m, LAMBDA e : SymLess(e[1], k))
             above == SelectSeq(m, LAMBDA e : SymLess(k, e[1]))
         IN  below \o <<<<k, v>>>> \o above
\* BTreeMap::insert: replaces the value of an equal key, else places the
\* entry in key order.
BTreeMap_insert(m, k, v) ==
    IF \E i \in 1..Len(m) : m[i][1] = k
    THEN [i \in 1..Len(m) |-> IF m[i][1] = k THEN <<k, v>> ELSE m[i]]
    ELSE LET below == SelectSeq(m, LAMBDA e : SymLess(e[1], k))
             above == SelectSeq(m, LAMBDA e : SymLess(k, e[1]))
         IN  below \o <<<<k, v>>>> \o above

RECURSIVE BTreeMap_collect(_)
\* collect::<BTreeMap<_, _>>() of a sequence of pairs: inserted one by one.
BTreeMap_collect(pairs) ==
    IF pairs = <<>> THEN <<>>
    ELSE LET n == Len(pairs)
         IN  BTreeMap_insert(BTreeMap_collect(SubSeq(pairs, 1, n - 1)),
                             pairs[n][1], pairs[n][2])

(***************************************************************************)
(* Folders: which hooks a pass overrides, and with what.                   *)
(*   trivial  overrides nothing (TrivialFolder)                            *)
(*   rename   variable: x becomes y                                        *)
(*   rekey    symbol: a becomes z                                          *)
(*   merge    symbol: every symbol becomes k                               *)
(*   eval     value: an Expression becomes the Boolean true                *)
(*   quote    term: a Dictionary term is left as it is; variable: as       *)
(*            rename                                                       *)
(***************************************************************************)
Folders == {"trivial", "rename", "rekey", "merge", "eval", "quote"}
LeafFolders == {"trivial", "rename", "rekey", "merge"}

variable_override(f, v) == IF f \in {"rename", "quote"} /\ v = "x" THEN "y" ELSE v
symbol_override(f, n) ==
    IF f = "merge" THEN "k" ELSE IF f = "rekey" /\ n = "a" THEN "z" ELSE n
value_overridden(f, v) == f = "eval" /\ v.tag = "Expression"
value_override(f, v) == Value_Boolean(TRUE)
term_overridden(f, t) == f = "quote" /\ t.value.tag = "Dictionary"
term_override(f, t) == t

\* A hook was entered with this node: what a stateful pass would see.
Visit(log, hook, node) == Append(log, <<hook, [node |-> node]>>)

(***************************************************************************)
(* The Folder trait and the fold_* functions (folder.rs).  Each takes the  *)
(* node, the folder and the visits so far, and yields the folded node and  *)
(* the visits afterwards.  Folder_fold_x is the trait's hook (the pass's   *)
(* override, or by default the function fold_x); fold_x is the function.   *)
(* The hooks dispatch through Folder_fold on the kind of node.             *)
(***************************************************************************)
RECURSIVE Folder_fold(_, _, _, _)
RECURSIVE fold_term_list(_, _, _)
RECURSIVE fold_entries(_, _, _)
RECURSIVE fold_params(_, _, _)

Folded(out, log) == [out |-> out, log |-> log]

\* The hooks of the trait, one per kind of node.
Folder_fold_number(n, fld, log) == Folder_fold("number", n, fld, log)
Folder_fold_string(s, fld, log) == Folder_fold("string", s, fld, log)
Folder_fold_boolean(b, fld, log) == Folder_fold("boolean", b, fld, log)
Folder_fold_symbol(n, fld, log) == Folder_fold("symbol", n, fld, log)
Folder_fold_variable(v, fld, log) == Folder_fold("variable", v, fld, log)
Folder_fold_operator(o, fld, log) == Folder_fold("operator", o, fld, log)
Folder_fold_rule(r, fld, log) == Folder_fold("rule", r, fld, log)
Folder_fold_term(t, fld, log) == Folder_fold("term", t, fld, log)
Folder_fold_value(v, fld, log) == Folder_fold("value", v, fld, log)
Folder_fold_instance_literal(i, fld, log) == Folder_fold("instance_literal", i, fld, log)
Folder_fold_dictionary(d, fld, log) == Folder_fold("dictionary", d, fld, log)
Folder_fold_call(c, fld, log) == Folder_fold("call", c, fld, log)
Folder_fold_list(l, fld, log) == Folder_fold("list", l, fld, log)
Folder_fold_operation(o, fld, log) == Folder_fold("operation", o, fld, log)
Folder_fold_param(q, fld, log) == Folder_fold("param", q, fld, log)

\* The leaf functions: the node itself.
fold_number(n, fld, log) == Folded(n, log)
fold_string(s, fld, log) == Folded(s, log)
fold_boolean(b, fld, log) == Folded(b, log)
fold_symbol(n, fld, log) == Folded(n, log)
fold_variable(v, fld, log) == Folded(v, log)
fold_operator(o, fld, log) == Folded(o, log)

\* The parameters of a rule, in order: params.into_iter().map(..).collect()
fold_params(ps, fld, log) ==
    IF ps = <<>> THEN Folded(<<>>, log)
    ELSE LET h == Folder_fold_param(Head(ps), fld, log)
             t == fold_params(Tail(ps), fld, h.log)
         IN  Folded(<<h.out>> \o t.out, t.log)

\* fold_rule: source_info and required are moved into the result.
fold_rule(r, fld, log) ==
    LET n == Folder_fold_symbol(r.name, fld, log)
        ps == fold_params(r.params, fld, n.log)
        b == Folder_fold_term(r.body, fld, ps.log)
    IN  Folded([name |-> n.out, params |-> ps.out, body |-> b.out,
                source_info |-> r.source_info, required |-> r.required], b.log)

fold_term_reparsed(t, fld, log) ==
    LET v == Folder_fold_value(t.value, fld, log)
    IN  Folded(Term_new("p1", v.out), v.log)
\* fold_term
fold_term(t, fld, log) ==
    LET v == Folder_fold_value(t.value, fld, log)
    IN  Folded(clone_with_value(t, v.out), v.log)

fold_term_list_reversed(t, fld, log) ==
    IF t = <<>> THEN Folded(<<>>, log)
    ELSE LET h == Folder_fold_term(Head(t), fld, log)
             rest == fold_term_list(Tail(t), fld, h.log)
         IN  Folded(rest.out \o <<h.out>>, rest.log)
\* fold_term_list: each element in turn is taken out of the vector, folded
\* and put back in its place.
fold_term_list(t, fld, log) ==
    IF t = <<>> THEN Folded(<<>>, log)
    ELSE LET h == Folder_fold_term(Head(t), fld, log)
             rest == fold_term_list(Tail(t), fld, h.log)
         IN  Folded(<<h.out>> \o rest.out, rest.log)

\* fold_value
fold_value(v, fld, log) ==
    CASE v.tag = "Number" ->
           LET r == Folder_fold_number(v.num, fld, log)
           IN  Folded(Value_Number(r.out), r.log)
      [] v.tag = "String" ->
           LET r == Folder_fold_string(v.str, fld, log)
           IN  Folded(Value_String(r.out), r.log)
      [] v.tag = "Boolean" ->
           LET r == Folder_fold_boolean(v.bool, fld, log)
           IN  Folded(Value_Boolean(r.out), r.log)
      [] v.tag = "Dictionary" ->
           LET r == Folder_fold_dictionary(v.dict, fld, log)
           IN  Folded(Value_Dictionary(r.out), r.log)
      [] v.tag = "InstanceLiteral" ->
           LET r == Folder_fold_instance_literal(v.inst, fld, log)
           IN  Folded(Value_InstanceLiteral(r.out), r.log)
      [] v.tag = "Call" ->
           LET r == Folder_fold_call(v.call, fld, log)
           IN  Folded(Value_Call(r.out), r.log)
      [] v.tag = "List" ->
           LET r == Folder_fold_list(v.list, fld, log)
           IN  Folded(Value_List(r.out), r.log)
      [] v.tag = "Variable" ->
           LET r == Folder_fold_variable(v.var, fld, log)
           IN  Folded(Value_Variable(r.out), r.log)
      [] v.tag = "Expression" ->
           LET r == Folder_fold_operation(v.expr, fld, log)
           IN  Folded(Value_Expression(r.out), r.log)

\* fold_instance_literal
fold_instance_literal(i, fld, log) ==
    LET t == Folder_fold_symbol(i.tag, fld, log)
        f == Folder_fold_dictionary(i.fields, fld, t.log)
    IN  Folded([tag |-> t.out, fields |-> f.out], f.log)

\* into_iter().map(|(k, v)| (fld.fold_symbol(k), fld.fold_term(v))): the
\* folded pairs, in the order of the input's keys.
fold_entries(entries, fld, log) ==
    IF entries = <<>> THEN Folded(<<>>, log)
    ELSE LET k == Folder_fold_symbol(Head(entries)[1], fld, log)
             v == Folder_fold_term(Head(entries)[2], fld, k.log)
             rest == fold_entries(Tail(entries), fld, v.log)
         IN  Folded(<<<<k.out, v.out>>>> \o rest.out, rest.log)

\* fold_dictionary
fold_dictionary(d, fld, log) ==
    LET e == fold_entries(d.fields, fld, log)
    IN  Folded([fields |-> BTreeMap_collect(e.out)], e.log)

\* fold_call
fold_call(c, fld, log) ==
    LET n == Folder_fold_symbol(c.name, fld, log)
        a == fold_term_list(c.args, fld, n.log)
        k == IF c.kwargs = None THEN Folded(None, a.log)
             ELSE LET e == fold_entries(c.kwargs[1], fld, a.log)
                  IN  Folded(Some(BTreeMap_collect(e.out)), e.log)
    IN  Folded([name |-> n.out, args |-> a.out, kwargs |-> k.out], k.log)

fold_list_drop_rest(l, fld, log) ==
    LET e == fold_term_list(l.elements, fld, log)
    IN  Folded([elements |-> e.out, rest_var |-> None], e.log)
fold_list_keep_rest(l, fld, log) ==
    LET e == fold_term_list(l.elements, fld, log)
    IN  Folded([elements |-> e.out, rest_var |-> l.rest_var], e.log)
\* fold_list
fold_list(l, fld, log) ==
    LET e == fold_term_list(l.elements, fld, log)
        rv == IF l.rest_var = None THEN Folded(None, e.log)
              ELSE LET r == Folder_fold_variable(l.rest_var[1], fld, e.log)
                   IN  Folded(Some(r.out), r.log)
    IN  Folded([elements |-> e.out, rest_var |-> rv.out], rv.log)

\* fold_operation
fold_operation(o, fld, log) ==
    LET op == Folder_fold_operator(o.operator, fld, log)
        a == fold_term_list(o.args, fld, op.log)
    IN  Folded([operator |-> op.out, args |-> a.out], a.log)

fold_param_specializer_first(q, fld, log) ==
    LET sp == IF q.specializer = None THEN Folded(None, log)
              ELSE LET r == Folder_fold_term(q.specializer[1], fld, log)
                   IN  Folded(Some(r.out), r.log)
        t == Folder_fold_term(q.parameter, fld, sp.log)
    IN  Folded([parameter |-> t.out, specializer |-> sp.out], t.log)
\* fold_param
fold_param(q, fld, log) ==
    LET t == Folder_fold_term(q.parameter, fld, log)
        sp == IF q.specializer = None THEN Folded(None, t.log)
              ELSE LET r == Folder_fold_term(q.specializer[1], fld, t.log)
                   IN  Folded(Some(r.out), r.log)
    IN  Folded([parameter |-> t.out, specializer |-> sp.out], sp.log)

\* impl Folder for the pass: the hook of the given kind is entered with the
\* node; it is the pass's override where there is one, and by default the
\* function of the same name.
Folder_fold(hook, node, fld, log) ==
    LET seen1 == Visit(log, hook, node)
    IN  CASE hook = "number" -> fold_number(node, fld, seen1)
          [] hook = "string" -> fold_string(node, fld, seen1)
          [] hook = "boolean" -> fold_boolean(node, fld, seen1)
          [] hook = "symbol" ->
               IF fld \in {"rekey", "merge"}
               THEN Folded(symbol_override(fld, node), seen1)
               ELSE fold_symbol(node, fld, seen1)
          [] hook = "variable" ->
               IF fld \in {"rename", "quote"}
               THEN Folded(variable_override(fld, node), seen1)
               ELSE fold_variable(node, fld, seen1)
          [] hook = "operator" -> fold_operator(node, fld, seen1)
          [] hook = "rule" -> fold_rule(node, fld, seen1)
          [] hook = "term" ->
               IF term_overridden(fld, node)
               THEN Folded(term_override(fld, node), seen1)
               ELSE fold_term(node, fld, seen1)
          [] hook = "value" ->
               IF value_overridden(fld, node)
               THEN Folded(value_override(fld, node), seen1)
               ELSE fold_value(node, fld, seen1)
          [] hook = "instance_literal" -> fold_instance_literal(node, fld, seen1)
          [] hook = "dictionary" -> fold_dictionary(node, fld, seen1)
          [] hook = "call" -> fold_call(node, fld, seen1)
          [] hook = "list" -> fold_list(node, fld, seen1)
          [] hook = "operation" -> fold_operation(node, fld, seen1)
          [] hook = "param" -> fold_param(node, fld, seen1)

(***************************************************************************)
(* The terms and rules handed to a pass.                                   *)
(***************************************************************************)
Provs == {"p1", "p2"}
Keys == {"a", "b"}
Operators == {"And", "Unify"}
LeafValues == {Value_Number(1), Value_String("s"), Value_Boolean(FALSE),
               Value_Variable("x"), Value_Variable("w")}
Atoms == {Term_new(p, v) : p \in Provs, v \in LeafValues}
Kids == {Term_new("p1", Value_Variable("x")), Term_new("p2", Value_Variable("w")),
         Term_new("p2", Value_Number(1))}

SeqsUpTo(S, n) == UNION {[1..k -> S] : k \in 0..n}

\* The BTreeMap holding the entries of the function m.
MapOf(m) ==
    LET ks == SelectSeq(SymbolOrder, LAMBDA k : k \in DOMAIN m)
    IN  [i \in 1..Len(ks) |-> <<ks[i], m[ks[i]]>>]
MapsOver(S) == {MapOf(m) : m \in UNION {[K -> S] : K \in SUBSET Keys}}

Lists(S) == {Value_List([elements |-> e, rest_var |-> rv]) :
                e \in SeqsUpTo(S, MaxArgs), rv \in {None, Some("x"), Some("w")}}
Dictionaries(S) == {Value_Dictionary([fields |-> m]) : m \in MapsOver(S)}
InstanceLiterals(S) ==
    {Value_InstanceLiteral([tag |-> "a", fields |-> [fields |-> m]]) : m \in MapsOver(S)}
Calls(S) == {Value_Call([name |-> "f", args |-> a, kwargs |-> k]) :
                a \in SeqsUpTo(S, MaxArgs),
                k \in {None} \cup {Some(m) : m \in MapsOver(S)}}
Expressions(S) == {Value_Expression([operator |-> o, args |-> a]) :
                      o \in Operators, a \in SeqsUpTo(S, MaxArgs)}

\* Every composite over the kids, under either provenance.
Flat == {Term_new(p, v) : p \in Provs,
            v \in Lists(Kids) \cup Dictionaries(Kids) \cup InstanceLiterals(Kids)
                  \cup Calls(Kids) \cup Expressions(Kids)}

\* One more level around the term c, by each kind of child position.
Wrap(c) ==
    {Term_new("p1", Value_List([elements |-> <<c>>, rest_var |-> Some("x")])),
     Term_new("p2", Value_Dictionary([fields |-> <<<<"a", c>>>>])),
     Term_new("p1", Value_InstanceLiteral(
                       [tag |-> "a", fields |-> [fields |-> <<<<"b", c>>>>]])),
     Term_new("p2", Value_Call([name |-> "f", args |-> <<c>>, kwargs |-> None])),
     Term_new("p1", Value_Call([name |-> "f", args |-> <<>>,
                                kwargs |-> Some(<<<<"a", c>>, <<"b", c>>>>)])),
     Term_new("p2", Value_Expression([operator |-> "And", args |-> <<c, c>>]))}
WrapAll(S) == UNION {Wrap(c) : c \in S}

Nested == WrapAll({Term_new("p2", v) : v \in Lists(Kids) \cup Dictionaries(Kids)})
Towers == WrapAll(Kids) \cup WrapAll(WrapAll(Kids)) \cup WrapAll(WrapAll(WrapAll(Kids)))
Terms == Atoms \cup Flat \cup Nested \cup Towers

Specializers == {None, Some(Term_new("p2", Value_Dictionary(
                                  [fields |-> <<<<"a", Term_new("p1", Value_Variable("x"))>>>>])))}
Parameters == {[parameter |-> t, specializer |-> sp] :
                  t \in {Term_new("p1", Value_Variable("x")),
                         Term_new("p2", Value_Variable("w"))},
                  sp \in Specializers}
RuleInputs == {[name |-> "f", params |-> ps, body |-> b, source_info |-> si,
                required |-> rq] :
                  ps \in SeqsUpTo(Parameters, MaxArgs),
                  b \in Wrap(Term_new("p1", Value_Variable("x"))),
                  si \in {"src1", "src2"}, rq \in BOOLEAN}

(***************************************************************************)
(* A pass: a folder is handed a term or a rule through its hook.           *)
(***************************************************************************)
InitFold ==
    /\ InitKB
    /\ built = "new"
    /\ fold \in {[pc |-> "ready", kind |-> "term", fld |-> f, in |-> t] :
                    f \in Folders, t \in Terms}
          \cup {[pc |-> "ready", kind |-> "rule", fld |-> f, in |-> r] :
                    f \in Folders, r \in RuleInputs}

Done(kind, r) ==
    [pc |-> "done", kind |-> kind, fld |-> fold.fld, in |-> fold.in,
     out |-> r.out, log |-> r.log]

\* fld.fold_term(t)
FoldTerm ==
    /\ fold.pc = "ready"
    /\ fold.kind = "term"
    /\ fold' = Done("term", Folder_fold_term(fold.in, fold.fld, <<>>))
    /\ UNCHANGED <<kb, heap, handles, ret, built, counterHist, kbHist>>

\* fld.fold_rule(r)
FoldRule ==
    /\ fold.pc = "ready"
    /\ fold.kind = "rule"
    /\ fold' = Done("rule", Folder_fold_rule(fold.in, fold.fld, <<>>))
    /\ UNCHANGED <<kb, heap, handles, ret, built, counterHist, kbHist>>

NextFold == FoldTerm \/ FoldRule

SpecFold == InitFold /\ [][NextFold]_vars

FoldedTerm == fold.pc = "done" /\ fold.kind = "term"
FoldedRule == fold.pc = "done" /\ fold.kind = "rule"

\* C11: a folder that overrides no hook returns every term and every rule
\* as it was handed in, provenance included, at any nesting of Dictionary,
\* InstanceLiteral, Call (with and without keyword arguments), List (with
\* and without rest variable) and Operation.
C11_IdentityLaw ==
    (fold.pc = "done" /\ fold.fld = "trivial") => fold.out = fold.in

C11_Witness ==
    /\ FoldedRule
    /\ fold.fld = "trivial"
    /\ Len(fold.in.params) = MaxArgs
    /\ fold.in.params[1].specializer # None
    /\ fold.in.body.value.tag = "Call"
    /\ fold.in.body.value.call.kwargs # None
    /\ fold.in.required

RECURSIVE VarsOfTerm(_)
RECURSIVE VarsOfTerms(_)
\* The variables that occur in a term, at any depth.
VarsOfTerm(t) ==
    LET v == t.value
    IN  CASE v.tag = "Variable" -> {v.var}
          [] v.tag = "List" ->
               VarsOfTerms(v.list.elements)
                   \cup {v.list.rest_var[i] : i \in 1..Len(v.list.rest_var)}
          [] v.tag = "Dictionary" ->
               VarsOfTerms([i \in 1..Len(v.dict.fields) |-> v.dict.fields[i][2]])
          [] v.tag = "InstanceLiteral" ->
               VarsOfTerms([i \in 1..Len(v.inst.fields.fields) |->
                               v.inst.fields.fields[i][2]])
          [] v.tag = "Call" ->
               VarsOfTerms(v.call.args)
                   \cup (IF v.call.kwargs = None THEN {}
                         ELSE VarsOfTerms([i \in 1..Len(v.call.kwargs[1]) |->
                                              v.call.kwargs[1][i][2]]))
          [] v.tag = "Expression" -> VarsOfTerms(v.expr.args)
          [] OTHER -> {}
VarsOfTerms(ts) == UNION {VarsOfTerm(ts[i]) : i \in 1..Len(ts)}

\* The variables that occur in a rule: parameters, specializers and body.
VarsOfRule(r) ==
    VarsOfTerm(r.body)
        \cup UNION {VarsOfTerm(r.params[i].parameter)
                        \cup VarsOfTerms(r.params[i].specializer) :
                    i \in 1..Len(r.params)}

VarsOf(kind, node) == IF kind = "rule" THEN VarsOfRule(node) ELSE VarsOfTerm(node)

\* C12: a folder that overrides only the variable hook, rewriting x to y,
\* rewrites every variable x of the input, at every depth and in every
\* position (Call positional and keyword arguments, List elements and rest
\* variable, Dictionary and InstanceLiteral field values, Operation
\* arguments, Rule parameters, specializers and body): no x is left, y
\* stands where x stood, and the other variables are as they were.
C12_OpenRecursion ==
    (fold.pc = "done" /\ fold.fld = "rename") =>
        /\ "x" \notin VarsOf(fold.kind, fold.out)
        /\ VarsOf(fold.kind, fold.out) =
               {IF v = "x" THEN "y" ELSE v : v \in VarsOf(fold.kind, fold.in)}

C12_Witness ==
    /\ FoldedTerm
    /\ fold.fld = "rename"
    /\ fold.in \in WrapAll(WrapAll(WrapAll({Term_new("p1", Value_Variable("x"))})))
    /\ fold.in.value.tag = "Call"
    /\ fold.in.value.call.kwargs # None
    /\ VarsOfTerm(fold.out) = {"y"}
    /\ fold.out # fold.in

\* The hooks' results for a symbol and for a term, on their own.
SymbolHook(f, n) == Folder_fold_symbol(n, f, <<>>).out
TermHook(f, t) == Folder_fold_term(t, f, <<>>).out

\* The maps the default dictionary and call functions folded at the top of
\* the term handed in, each as <<input map, output map>>.
FoldedMaps ==
    IF ~FoldedTerm \/ term_overridden(fold.fld, fold.in)
          \/ value_overridden(fold.fld, fold.in.value)
    THEN {}
    ELSE LET v == fold.in.value
             w == fold.out.value
         IN  CASE v.tag = "Dictionary" -> {<<v.dict.fields, w.dict.fields>>}
               [] v.tag = "InstanceLiteral" ->
                    {<<v.inst.fields.fields, w.inst.fields.fields>>}
               [] v.tag = "Call" /\ v.call.kwargs # None ->
                    {<<v.call.kwargs[1], w.call.kwargs[1]>>}
               [] OTHER -> {}

SortedByKey(m) == \A i, j \in 1..Len(m) : i < j => SymLess(m[i][1], m[j][1])

\* C15, as claimed: the result holds the transformed (key, value) pair of
\* every entry of the input, has as many entries as the input, and is
\* sorted by the transformed keys.
C15_Original ==
    \A io \in FoldedMaps :
        LET m == io[1]
            o == io[2]
            f == fold.fld
        IN  /\ \A i \in 1..Len(m) :
                  \E j \in 1..Len(o) :
                      o[j] = <<SymbolHook(f, m[i][1]), TermHook(f, m[i][2])>>
            /\ Len(o) = Len(m)
            /\ SortedByKey(o)

\* C15, amended: the result holds one entry per distinct transformed key,
\* sorted by the transformed keys; its value is the transformed value of
\* the input entry with the greatest key among those whose key transforms
\* to it; so the result has as many entries as the input exactly when the
\* symbol hook maps the input's keys to distinct symbols.
C15_MapFold ==
    \A io \in FoldedMaps :
        LET m == io[1]
            o == io[2]
            f == fold.fld
            from(k) == {i \in 1..Len(m) : SymbolHook(f, m[i][1]) = k}
            last(k) == CHOOSE i \in from(k) : \A i2 \in from(k) : i2 <= i
        IN  /\ SortedByKey(o)
            /\ {o[j][1] : j \in 1..Len(o)} =
                   {SymbolHook(f, m[i][1]) : i \in 1..Len(m)}
            /\ \A j \in 1..Len(o) : o[j][2] = TermHook(f, m[last(o[j][1])][2])
            /\ Len(o) = Len(m) <=>
                   \A i, i2 \in 1..Len(m) :
                       i # i2 => SymbolHook(f, m[i][1]) # SymbolHook(f, m[i2][1])

C15_Witness ==
    /\ fold.pc = "done"
    /\ fold.fld = "merge"
    /\ \E io \in FoldedMaps :
          /\ Len(io[1]) = 2
          /\ io[1][1][2] # io[1][2][2]
          /\ Len(io[2]) = 1

\* The default term hook ran on t: the pass does not override it for t.
DefaultTerm(f, t) == ~term_overridden(f, t)

\* C16: whatever the other hooks do, the default term hook returns its
\* input with only the value replaced, so with the same provenance, and
\* the default rule hook returns a rule with the same source provenance
\* and the same `required` flag.
C16_ProvenanceFrame ==
    /\ (FoldedTerm /\ DefaultTerm(fold.fld, fold.in)) =>
           /\ fold.out.prov = fold.in.prov
           /\ fold.out = [fold.in EXCEPT
                            !.value = Folder_fold_value(fold.in.value, fold.fld, <<>>).out]
    /\ FoldedRule =>
           /\ fold.out.source_info = fold.in.source_info
           /\ fold.out.required = fold.in.required
           /\ DefaultTerm(fold.fld, fold.in.body) =>
                  fold.out.body.prov = fold.in.body.prov
           /\ \A i \in 1..Len(fold.in.params) :
                  fold.out.params[i].parameter.prov = fold.in.params[i].parameter.prov

C16_Witness ==
    /\ FoldedRule
    /\ fold.fld = "eval"
    /\ fold.in.source_info = "src2"
    /\ fold.in.required
    /\ fold.in.body.prov = "p2"
    /\ fold.in.body.value.tag = "Expression"
    /\ fold.out.body = Term_new("p2", Value_Boolean(TRUE))
    /\ fold.in.params # <<>>

\* Position by position, the term hook's results for a sequence.
Elementwise(f, in, out) ==
    /\ Len(out) = Len(in)
    /\ \A i \in 1..Len(in) : out[i] = TermHook(f, in[i])

\* C17: the default hooks keep the shape of sequences: the positional
\* arguments of a Call, the elements of a List, the arguments of an
\* Operation and the parameters of a Rule come out with the same length,
\* the i-th being the folder's result for the i-th of the input; an absent
\* List rest variable, Call keyword map or Parameter specializer stays
\* absent and a present one stays present.
C17_SequenceShape ==
    /\ (FoldedTerm /\ DefaultTerm(fold.fld, fold.in)
          /\ ~value_overridden(fold.fld, fold.in.value)) =>
           LET v == fold.in.value
               w == fold.out.value
           IN  CASE v.tag = "Call" ->
                      /\ Elementwise(fold.fld, v.call.args, w.call.args)
                      /\ (w.call.kwargs = None) <=> (v.call.kwargs = None)
                 [] v.tag = "List" ->
                      /\ Elementwise(fold.fld, v.list.elements, w.list.elements)
                      /\ (w.list.rest_var = None) <=> (v.list.rest_var = None)
                 [] v.tag = "Expression" ->
                      Elementwise(fold.fld, v.expr.args, w.expr.args)
                 [] OTHER -> TRUE
    /\ FoldedRule =>
           /\ Len(fold.out.params) = Len(fold.in.params)
           /\ \A i \in 1..Len(fold.in.params) :
                  /\ fold.out.params[i] =
                         Folder_fold_param(fold.in.params[i], fold.fld, <<>>).out
                  /\ (fold.out.params[i].specializer = None)
                         <=> (fold.in.params[i].specializer = None)

C17_Witness ==
    /\ FoldedTerm
    /\ fold.fld = "rename"
    /\ fold.in.value.tag = "Call"
    /\ Len(fold.in.value.call.args) = MaxArgs
    /\ fold.in.value.call.args[1] # fold.in.value.call.args[MaxArgs]
    /\ fold.in.value.call.kwargs = None
    /\ fold.out.value.call.args # fold.in.value.call.args

RECURSIVE VisitsOfTerm(_)
RECURSIVE VisitsOfTerms(_)
RECURSIVE VisitsOfEntries(_)
RECURSIVE VisitsOfParams(_)
\* The nodes of a term in depth-first, left-to-right order, each with the
\* hook of its kind.
VisitsOfTerm(t) ==
    LET v == t.value
        here == Visit(Visit(<<>>, "term", t), "value", v)
    IN  here \o
        CASE v.tag = "Number" -> Visit(<<>>, "number", v.num)
          [] v.tag = "String" -> Visit(<<>>, "string", v.str)
          [] v.tag = "Boolean" -> Visit(<<>>, "boolean", v.bool)
          [] v.tag = "Variable" -> Visit(<<>>, "variable", v.var)
          [] v.tag = "Dictionary" ->
               Visit(<<>>, "dictionary", v.dict) \o VisitsOfEntries(v.dict.fields)
          [] v.tag = "InstanceLiteral" ->
               Visit(Visit(Visit(<<>>, "instance_literal", v.inst),
                           "symbol", v.inst.tag),
                     "dictionary", v.inst.fields)
                   \o VisitsOfEntries(v.inst.fields.fields)
          [] v.tag = "Call" ->
               Visit(Visit(<<>>, "call", v.call), "symbol", v.call.name)
                   \o VisitsOfTerms(v.call.args)
                   \o (IF v.call.kwargs = None THEN <<>>
                       ELSE VisitsOfEntries(v.call.kwargs[1]))
          [] v.tag = "List" ->
               Visit(<<>>, "list", v.list)
                   \o VisitsOfTerms(v.list.elements)
                   \o (IF v.list.rest_var = None THEN <<>>
                       ELSE Visit(<<>>, "variable", v.list.rest_var[1]))
          [] v.tag = "Expression" ->
               Visit(Visit(<<>>, "operation", v.expr), "operator", v.expr.operator)
                   \o VisitsOfTerms(v.expr.args)
VisitsOfTerms(ts) ==
    IF ts = <<>> THEN <<>> ELSE VisitsOfTerm(Head(ts)) \o VisitsOfTerms(Tail(ts))
VisitsOfEntries(es) ==
    IF es = <<>> THEN <<>>
    ELSE Visit(<<>>, "symbol", Head(es)[1]) \o VisitsOfTerm(Head(es)[2])
             \o VisitsOfEntries(Tail(es))
VisitsOfParams(ps) ==
    IF ps = <<>> THEN <<>>
    ELSE Visit(<<>>, "param", Head(ps)) \o VisitsOfTerm(Head(ps).parameter)
             \o VisitsOfTerms(Head(ps).specializer)
             \o VisitsOfParams(Tail(ps))

\* The nodes of a rule: the rule, its name, its parameters in order, then
\* its body.
VisitsOfRule(r) ==
    Visit(Visit(<<>>, "rule", r), "symbol", r.name)
        \o VisitsOfParams(r.params) \o VisitsOfTerm(r.body)

\* C20: with only leaf hooks overridden, one traversal of a term or rule
\* enters the hook of its kind exactly once for every node of the input,
\* in depth-first left-to-right order: rule: name, parameters in order,
\* body; parameter: term, then specializer; call: name, positional
\* arguments, keyword pairs in key order; list: elements, then rest
\* variable; dictionary: key, then value, entry by entry in key order.
C20_TraversalOrder ==
    (fold.pc = "done" /\ fold.fld \in LeafFolders) =>
        fold.log = IF fold.kind = "rule" THEN VisitsOfRule(fold.in)
                   ELSE VisitsOfTerm(fold.in)

C20_Witness ==
    /\ FoldedRule
    /\ fold.fld = "rekey"
    /\ Len(fold.in.params) = MaxArgs
    /\ fold.in.params[1].specializer # None
    /\ fold.in.body.value.tag = "Call"
    /\ fold.in.body.value.call.kwargs # None
    /\ fold.out.body.value.call.kwargs # fold.in.body.value.call.kwargs
    /\ fold.log[Len(fold.log)] = <<"variable", [node |-> "x"]>>

====
